---------------------------- MODULE Spec2Model ----------------------------
(***************************************************************************)
(* A model of the Adafruit Si5351 clock generator driver                   *)
(* (src/Adafruit_SI5351.cpp): the driver object's fields, the device's     *)
(* register file behind the I2C bus, and one action per public method.     *)
(*                                                                         *)
(* Conventions                                                             *)
(*  - A uint32_t word w is represented by its two's-complement value       *)
(*    (w when w < 2^31, w - 2^32 otherwise): the bit pattern is the same   *)
(*    and the model checker's integers are 32 bits wide. Masks and shifts  *)
(*    are written with floor division and modulus, which read the same     *)
(*    bits from either representation.                                     *)
(*  - float is IEEE-754 binary32 with round-to-nearest-even and double is  *)
(*    binary64 (the ARM and ESP builds of the library).                    *)
(*  - A bus transaction that fails leaves the device's registers as they   *)
(*    were (the device did not acknowledge it).                            *)
(***************************************************************************)
EXTENDS Integers, Sequences, FiniteSets, TLC

VARIABLES
  initialised,      \* m_si5351Config.initialised
  plla_configured,  \* m_si5351Config.plla_configured
  plla_freq,        \* m_si5351Config.plla_freq
  pllb_configured,  \* m_si5351Config.pllb_configured
  pllb_freq,        \* m_si5351Config.pllb_freq
  lastRdivValue,    \* lastRdivValue[0..2]
  i2c_dev,          \* the Adafruit_I2CDevice pointer: "null" or "dev"
  regs,             \* the device's register file
  halted,           \* the program has crashed (null dereference)
  call,             \* the last call made: its method and arguments
  ret,              \* what the last call returned
  bus,              \* the bus transactions the last call issued, in order
  fields,           \* P1, P2, P3 as the last call computed them, or <<>>
  calls,            \* number of calls made so far
  callBound,        \* number of calls the behaviour makes at most
  faulty,           \* number of calls during which the bus misbehaved
  pllSetup,         \* history: PLLs set up successfully since the last successful begin
  rdivSet,          \* history: per channel, the divider of the last setupRdiv if it succeeded
  presetLoaded,     \* history: setClockBuilderData has written to the device
  rdivWritten,      \* history: channels whose MSx_PARAMETERS_3 register the driver has written
  pllLast,          \* history: per PLL, <<mult, num, denom>> of its last successful setupPLL
  notFound          \* history: begin has returned ERROR_I2C_DEVICENOTFOUND and no begin
                    \* has succeeded since

vars == <<initialised, plla_configured, plla_freq, pllb_configured, pllb_freq,
          lastRdivValue, i2c_dev, regs, halted, call, ret, bus, fields, calls,
          callBound, faulty,
          pllSetup, rdivSet, presetLoaded, rdivWritten, pllLast, notFound>>

-----------------------------------------------------------------------------
(* Bounds of the model *)

\* calls per behaviour
MaxCalls == 4

\* calls per behaviour when the arguments range over the validation boundaries
MaxArgCalls == 3

\* calls per behaviour during which bus transactions may fail
MaxFaultyCalls == 1

\* what every device register may hold at power-up
PowerUpBytes == {0, 255}

-----------------------------------------------------------------------------
(* Program constants *)

SI5351_PLL_A == "SI5351_PLL_A"
SI5351_PLL_B == "SI5351_PLL_B"

ERROR_NONE == "ERROR_NONE"
ERROR_I2C_DEVICENOTFOUND == "ERROR_I2C_DEVICENOTFOUND"
ERROR_I2C_TRANSACTION == "ERROR_I2C_TRANSACTION"
ERROR_DEVICENOTINITIALISED == "ERROR_DEVICENOTINITIALISED"
ERROR_INVALIDPARAMETER == "ERROR_INVALIDPARAMETER"

\* m_si5351Config.crystalFreq = SI5351_CRYSTAL_FREQ_25MHZ, as 390625 * 2^6
crystalFreqMant == 390625
crystalFreqExp == 6

\* m_si5351Config.crystalLoad = SI5351_CRYSTAL_LOAD_10PF
crystalLoad == 192

SI5351_REGISTER_3_OUTPUT_ENABLE_CONTROL == 3
SI5351_REGISTER_16_CLK0_CONTROL == 16
SI5351_REGISTER_42_MULTISYNTH0_PARAMETERS_1 == 42
SI5351_REGISTER_44_MULTISYNTH0_PARAMETERS_3 == 44
SI5351_REGISTER_50_MULTISYNTH1_PARAMETERS_1 == 50
SI5351_REGISTER_52_MULTISYNTH1_PARAMETERS_3 == 52
SI5351_REGISTER_58_MULTISYNTH2_PARAMETERS_1 == 58
SI5351_REGISTER_60_MULTISYNTH2_PARAMETERS_3 == 60
SI5351_REGISTER_149_SPREAD_SPECTRUM_PARAMETERS == 149
SI5351_REGISTER_177_PLL_RESET == 177
SI5351_REGISTER_183_CRYSTAL_INTERNAL_LOAD_CAPACITANCE == 183

\* the registers the driver addresses
Registers == {3} \cup (15..92) \cup (149..170) \cup {177, 183}

-----------------------------------------------------------------------------
(* Arithmetic of the C++ types *)

RECURSIVE Pow2(_)
Pow2(n) == IF n = 0 THEN 1 ELSE 2 * Pow2(n - 1)

RECURSIVE BitLen(_)
BitLen(n) == IF n = 0 THEN 0 ELSE 1 + BitLen(n \div 2)

\* (x & (mask of `width` bits at `shift`)) >> shift
Bits(x, shift, width) == (x \div Pow2(shift)) % Pow2(width)

\* a | b for bytes (or any non-negative integers)
RECURSIVE BitOr(_, _)
BitOr(a, b) ==
  IF a = 0 THEN b
  ELSE IF b = 0 THEN a
  ELSE 2 * BitOr(a \div 2, b \div 2) + (IF a % 2 = 1 \/ b % 2 = 1 THEN 1 ELSE 0)

\* a binary32 value is [m |-> mantissa, e |-> exponent], standing for m * 2^e

\* a quotient rounded to the nearest multiple of the unit, ties to even
RoundEven(q, rem, half) ==
  IF rem > half \/ (rem = half /\ q % 2 = 1) THEN q + 1 ELSE q

\* the bits of num/denom, one per step, until 24 significant bits are there
RECURSIVE DivBits(_, _, _, _)
DivBits(m, r, e, denom) ==
  IF m >= 8388608
  THEN [m |-> m, r |-> r, e |-> e]
  ELSE IF 2 * r >= denom
       THEN DivBits(2 * m + 1, 2 * r - denom, e + 1, denom)
       ELSE DivBits(2 * m, 2 * r, e + 1, denom)

\* (float)num / (float)denom for 0 < num, denom < 2^24 (both casts are exact)
FloatDiv(num, denom) ==
  LET d == DivBits(num \div denom, num % denom, 0, denom)
      \* 2 * d.r against denom decides the rounding of the 24th bit
  IN  [m |-> RoundEven(d.m, 2 * d.r, denom), e |-> -d.e]

\* floor(128 * f) for a binary32 f >= 0: the product is exact in binary32
Floor128(f) ==
  IF f.e + 7 >= 0 THEN f.m * Pow2(f.e + 7)
  ELSE IF -(f.e + 7) > 30 THEN 0 ELSE f.m \div Pow2(-(f.e + 7))

\* (float)i + f for an integer 0 <= i < 256 and a binary32 f >= 0 (0 is m = 0)
FloatAddInt(i, f) ==
  IF f.m = 0 THEN [m |-> i, e |-> 0]
  ELSE
    LET whole == i + (IF f.e >= 0 THEN f.m * Pow2(f.e)
                      ELSE IF -f.e > 30 THEN 0 ELSE f.m \div Pow2(-f.e))
        s     == 24 - BitLen(whole)        \* the sum's mantissa is sum * 2^s
        down  == -f.e - s                  \* f's mantissa is shifted right by this
    IN  IF whole = 0 THEN f
        ELSE IF down <= 0 THEN [m |-> i * Pow2(s) + f.m * Pow2(-down), e |-> -s]
        ELSE IF down > 25 THEN [m |-> i * Pow2(s), e |-> -s]
        ELSE [m |-> RoundEven(i * Pow2(s) + f.m \div Pow2(down),
                              f.m % Pow2(down), Pow2(down - 1)),
              e |-> -s]

\* (float)crystalFreq * f for a binary32 f >= 0: the exact product is
\* hi * 4096 + lo, cut to its leading 24 bits and rounded
FloatMulCrystal(f) ==
  LET a     == (f.m \div 4096) * crystalFreqMant
      b     == (f.m % 4096) * crystalFreqMant
      hi    == a + b \div 4096
      lo    == b % 4096
      shift == BitLen(hi) + 12 - 24
  IN  IF shift <= 0
      THEN [m |-> hi * 4096 + lo, e |-> f.e + crystalFreqExp]
      ELSE IF shift <= 12
      THEN [m |-> RoundEven(hi * Pow2(12 - shift) + lo \div Pow2(shift),
                            lo % Pow2(shift), Pow2(shift - 1)),
            e |-> f.e + crystalFreqExp + shift]
      ELSE [m |-> RoundEven(hi \div Pow2(shift - 12),
                            (hi % Pow2(shift - 12)) * 4096 + lo, Pow2(shift - 1)),
            e |-> f.e + crystalFreqExp + shift]

\* (uint32_t)d for a double d that holds an integer: converting a negative
\* value is undefined; builds yield 0 (saturating conversion) or the low 32
\* bits of the integer (conversion through a wider signed integer)
CastU32(d) == IF d >= 0 THEN {d} ELSE {0, d}

\* the word holding the low 32 bits of m * 2^e, for 0 <= m <= 2^24, 0 <= e < 32
Low32(m, e) ==
  IF e <= 6 THEN m * Pow2(e)
  ELSE LET x == m % Pow2(32 - e)
       IN  IF x < Pow2(31 - e) THEN x * Pow2(e) ELSE (x - Pow2(32 - e)) * Pow2(e)

\* (uint32_t)floor(f) for a binary32 f >= 0: a value of 2^32 or more is out
\* of range of the type, which is undefined; builds yield 0xFFFFFFFF
\* (saturating conversion) or the low 32 bits of the integer
FloorU32(f) ==
  IF f.e < 0 THEN {f.m \div Pow2(-f.e)}
  ELSE IF BitLen(f.m) + f.e <= 32 THEN {Low32(f.m, f.e)}
  ELSE {-1, IF f.e >= 32 THEN 0 ELSE Low32(f.m, f.e)}

-----------------------------------------------------------------------------
(* The register fields of one synthesis stage *)

\* floor(128 * ((float)num / (float)denom)), denom > 0 where num = 0
\* (the quotient of 0 by a positive float is 0)
FracFloor(num, denom) == IF num = 0 THEN 0 ELSE Floor128(FloatDiv(num, denom))

\* setupPLL, fractional mode: P1 and P2 as the else branch computes them
PllFracP1(mult, num, denom) == 128 * mult + FracFloor(num, denom) - 512

PllFracP2(mult, num, denom) == CastU32(128 * num - denom * FracFloor(num, denom))

\* a faulty variant of PllP2, for comparison: integer mode stores denom
PllP2Swapped(mult, num, denom) ==
  IF num = 0 THEN {denom}
  ELSE PllFracP2(mult, num, denom)

\* setupPLL: P1, P2, P3 of the feedback divider mult + num/denom
PllP1(mult, num, denom) ==
  IF num = 0 THEN 128 * mult - 512
  ELSE PllFracP1(mult, num, denom)

PllP2(mult, num, denom) ==
  IF num = 0 THEN {num}
  ELSE PllFracP2(mult, num, denom)

PllP3(mult, num, denom) == denom

\* setupPLL: the values (uint32_t)floor(fvco) can take, with
\* fvco = crystalFreq * (mult + ((float)num / (float)denom))
PllFreq(mult, num, denom) ==
  LET frac == IF num = 0 THEN [m |-> 0, e |-> 0] ELSE FloatDiv(num, denom)
  IN  FloorU32(FloatMulCrystal(FloatAddInt(mult, frac)))

\* setupMultisynth: P1, P2, P3 of the output divider div + num/denom
MultisynthP1(div, num, denom) ==
  IF num = 0 THEN 128 * div - 512
  ELSE IF denom = 1 THEN 128 * div + 128 * num - 512
  ELSE 128 * div + FracFloor(num, denom) - 512

MultisynthP2(div, num, denom) ==
  IF num = 0 THEN {0}
  ELSE IF denom = 1 THEN {128 * num - 128}
  ELSE CastU32(128 * num - denom * FracFloor(num, denom))

MultisynthP3(div, num, denom) ==
  IF num = 0 THEN denom
  ELSE IF denom = 1 THEN 1
  ELSE denom

-----------------------------------------------------------------------------
(* The bus *)

\* A call in progress: the status of its last statement (once it is not
\* ERROR_NONE the call has returned it), the device's registers, the
\* transactions issued so far, and which of the call's transactions, counted
\* from 1, the bus fails.
Start(r, fail) == [status |-> ERROR_NONE, regs |-> r, bus |-> <<>>, fail |-> fail]

\* the transaction each bus primitive issues through i2c_dev
write8(reg, value) == [kind |-> "write", reg |-> reg, data |-> <<value>>]

writeN(data, n) == [kind |-> "write", reg |-> data[1], data |-> SubSeq(data, 2, n)]

read8(reg) == [kind |-> "read", reg |-> reg, data |-> <<>>]

\* the device's registers after it has acknowledged a transaction (a write
\* stores its bytes from tx.reg on: the register address auto-increments)
DeviceWrite(r, tx) ==
  IF tx.kind # "write" THEN r
  ELSE IF Len(tx.data) = 1 THEN [r EXCEPT ![tx.reg] = tx.data[1]]
  ELSE [a \in Registers |->
          IF a >= tx.reg /\ a < tx.reg + Len(tx.data) THEN tx.data[a - tx.reg + 1]
          ELSE r[a]]

\* the transactions txs[i..n] acknowledged in order (the first half is
\* evaluated before the second starts, which keeps the evaluation shallow)
RECURSIVE DeviceWrites(_, _, _, _)
DeviceWrites(r, txs, i, n) ==
  IF i > n THEN r
  ELSE IF i = n THEN DeviceWrite(r, txs[i])
  ELSE LET mid  == (i + n) \div 2
           half == DeviceWrites(r, txs, i, mid)
       IN  IF half[SI5351_REGISTER_3_OUTPUT_ENABLE_CONTROL] >= 0
           THEN DeviceWrites(half, txs, mid + 1, n)
           ELSE half

\* the bus primitives called one after the other, whatever each returns:
\* the status is that of the last one
Issue(c, txs) ==
  LET base == Len(c.bus)
      n    == Len(txs)
  IN  [status |-> IF (base + n) \in c.fail THEN ERROR_I2C_TRANSACTION ELSE ERROR_NONE,
       regs   |-> DeviceWrites(c.regs, [i \in 1..n |->
                                 IF (base + i) \in c.fail THEN read8(txs[i].reg)
                                 ELSE txs[i]], 1, n),
       bus    |-> c.bus \o [i \in 1..n |->
                    [kind |-> txs[i].kind, reg |-> txs[i].reg, data |-> txs[i].data,
                     ok |-> (base + i) \notin c.fail]],
       fail   |-> c.fail]

\* ASSERT_STATUS(x); ASSERT_STATUS(y); ...: the bus primitives called one
\* after the other, the call returning the status of the first that fails
ASSERT_STATUS(c, txs) ==
  LET base == Len(c.bus)
      bad  == {i \in 1..Len(txs) : (base + i) \in c.fail}
      stop == IF bad = {} THEN Len(txs) ELSE CHOOSE i \in bad : \A j \in bad : i <= j
  IN  IF c.status # ERROR_NONE THEN c ELSE Issue(c, SubSeq(txs, 1, stop))

-----------------------------------------------------------------------------
(* The driver object *)

\* the object as the constructor leaves it, and the device at power-up
Constructed ==
  /\ initialised = FALSE
  /\ plla_configured = FALSE
  /\ plla_freq = 0
  /\ pllb_configured = FALSE
  /\ pllb_freq = 0
  /\ lastRdivValue = [i \in 0..2 |-> 0]
  /\ i2c_dev = "null"
  /\ \E v \in PowerUpBytes : regs = [a \in Registers |-> v]
  /\ halted = FALSE
  /\ call = [op |-> "Adafruit_SI5351"]
  /\ ret = ERROR_NONE
  /\ bus = <<>>
  /\ fields = <<>>
  /\ calls = 0
  /\ faulty = 0
  /\ pllSetup = {}
  /\ rdivSet = [i \in 0..2 |-> -1]
  /\ presetLoaded = FALSE
  /\ rdivWritten = {}
  /\ pllLast = [pll \in {SI5351_PLL_A, SI5351_PLL_B} |-> <<>>]
  /\ notFound = FALSE

Init == Constructed /\ callBound = MaxCalls

\* some transaction of the call failed
BusFailed(log) == \E i \in 1..Len(log) : ~log[i].ok

\* the program is running and makes one more call
CanCall == ~halted /\ calls < callBound

\* the channels whose MSx_PARAMETERS_3 register (44, 52, 60) some acknowledged
\* write of the log has stored a byte in
WrittenChannels(log) ==
  { ch \in 0..2 :
      \E i \in 1..Len(log) :
        /\ log[i].ok
        /\ log[i].kind = "write"
        /\ log[i].reg <= SI5351_REGISTER_44_MULTISYNTH0_PARAMETERS_3 + 8 * ch
        /\ SI5351_REGISTER_44_MULTISYNTH0_PARAMETERS_3 + 8 * ch
             < log[i].reg + Len(log[i].data) }

\* the arguments of the last successful setupPLL of each PLL, after a call
\* (setupPLLInt passes num = 0, denom = 1)
LastPllArgs(rec, status) ==
  IF status = ERROR_NONE /\ rec.op = "setupPLL"
  THEN [pllLast EXCEPT ![rec.pll] = <<rec.mult, rec.num, rec.denom>>]
  ELSE IF status = ERROR_NONE /\ rec.op = "setupPLLInt"
  THEN [pllLast EXCEPT ![rec.pll] = <<rec.mult, 0, 1>>]
  ELSE pllLast

\* every call: its record, its result, and the accounting of the bounds
\* (`fault`: the bus misbehaved during the call)
Called(rec, status, c, fault) ==
  /\ CanCall
  /\ fault => faulty < MaxFaultyCalls
  /\ call' = rec
  /\ ret' = status
  /\ bus' = c.bus
  /\ regs' = c.regs
  /\ calls' = calls + 1
  /\ faulty' = IF fault THEN faulty + 1 ELSE faulty
  /\ rdivWritten' = rdivWritten \cup WrittenChannels(c.bus)
  /\ pllLast' = LastPllArgs(rec, status)
  /\ UNCHANGED <<halted, callBound>>

\* a call that dereferences the null i2c_dev and crashes: it never returns
Crashed(rec) ==
  /\ CanCall
  /\ i2c_dev = "null"
  /\ call' = rec
  /\ ret' = "none"
  /\ halted' = TRUE
  /\ calls' = calls + 1
  /\ UNCHANGED <<bus, regs, faulty, callBound, rdivWritten, pllLast>>

\* a transaction on the null i2c_dev that does not crash reports failure
NullFails(fail, n) == i2c_dev = "null" => fail = 1..n

UNCHANGED_PLLs == UNCHANGED <<plla_configured, plla_freq, pllb_configured, pllb_freq>>

\* --- enableSpreadSpectrum -------------------------------------------------
enableSpreadSpectrum(c, enabled) ==
  LET regval == c.regs[SI5351_REGISTER_149_SPREAD_SPECTRUM_PARAMETERS]
      newval == IF enabled THEN BitOr(regval, 128) ELSE regval % 128
  IN  ASSERT_STATUS(c, << read8(SI5351_REGISTER_149_SPREAD_SPECTRUM_PARAMETERS),
                          write8(SI5351_REGISTER_149_SPREAD_SPECTRUM_PARAMETERS, newval) >>)

CallEnableSpreadSpectrum(enabled, fail) ==
  LET c == enableSpreadSpectrum(Start(regs, fail), enabled)
  IN  /\ CanCall
      /\ NullFails(fail, 2)
      /\ Called([op |-> "enableSpreadSpectrum", enabled |-> enabled], c.status, c,
                BusFailed(c.bus))
      /\ UNCHANGED_PLLs
      /\ fields' = <<>>
      /\ UNCHANGED <<initialised, lastRdivValue, i2c_dev, pllSetup, rdivSet, presetLoaded, notFound>>

CrashEnableSpreadSpectrum(enabled) ==
  /\ Crashed([op |-> "enableSpreadSpectrum", enabled |-> enabled])
  /\ UNCHANGED_PLLs
  /\ fields' = <<>>
  /\ UNCHANGED <<initialised, lastRdivValue, i2c_dev, pllSetup, rdivSet, presetLoaded, notFound>>

\* --- begin ----------------------------------------------------------------
\* the checked writes of begin: outputs disabled, the 8 output drivers
\* powered down, the crystal load capacitance set
\* a faulty variant of beginWrites, for comparison: the loop over the clock
\* control registers stops one driver short
beginWritesSevenDrivers(c) ==
  LET statements ==
        << write8(SI5351_REGISTER_3_OUTPUT_ENABLE_CONTROL, 255) >>
        \o [clk \in 1..7 |-> write8(SI5351_REGISTER_16_CLK0_CONTROL + clk - 1, 128)]
        \o << write8(SI5351_REGISTER_183_CRYSTAL_INTERNAL_LOAD_CAPACITANCE, crystalLoad) >>
  IN  ASSERT_STATUS(c, statements)

beginWrites(c) ==
  LET statements ==
        << write8(SI5351_REGISTER_3_OUTPUT_ENABLE_CONTROL, 255) >>
        \o [clk \in 1..8 |-> write8(SI5351_REGISTER_16_CLK0_CONTROL + clk - 1, 128)]
        \o << write8(SI5351_REGISTER_183_CRYSTAL_INTERNAL_LOAD_CAPACITANCE, crystalLoad) >>
  IN  ASSERT_STATUS(c, statements)

\* the rest of begin: enableSpreadSpectrum(false), its status dropped
beginSpreadSpectrum(c) == [enableSpreadSpectrum(c, FALSE) EXCEPT !.status = ERROR_NONE]

CallBegin(found, fail) ==
  LET c10 == beginWrites(Start(regs, fail))
      c   == IF ~found THEN Start(regs, fail)
             ELSE IF c10.status # ERROR_NONE THEN c10
             ELSE beginSpreadSpectrum(c10)
      status == IF ~found THEN ERROR_I2C_DEVICENOTFOUND ELSE c.status
  IN  /\ CanCall
      /\ ~found => fail = {}
      /\ Called([op |-> "begin"], status, c, ~found \/ BusFailed(c.bus))
      /\ i2c_dev' = "dev"
      /\ IF status = ERROR_NONE
         THEN /\ plla_configured' = FALSE
              /\ plla_freq' = 0
              /\ pllb_configured' = FALSE
              /\ pllb_freq' = 0
              /\ initialised' = TRUE
              /\ pllSetup' = {}
         ELSE /\ UNCHANGED_PLLs
              /\ UNCHANGED <<initialised, pllSetup>>
      /\ notFound' = IF status = ERROR_NONE THEN FALSE
                      ELSE IF status = ERROR_I2C_DEVICENOTFOUND THEN TRUE
                      ELSE notFound
      /\ fields' = <<>>
      /\ UNCHANGED <<lastRdivValue, rdivSet, presetLoaded>>

\* --- setClockBuilderData --------------------------------------------------
\* m_si5351_regs_15to92_149to170: one (register, value) pair per register of
\* 15..92 and 149..170, in that order; the values are data of the header
PresetRegister(i) == IF i <= 78 THEN 14 + i ELSE 70 + i

PresetValue(i) == 0

PresetLength == 100

\* a faulty variant of presetWrites, for comparison: the outputs are enabled
\* before the PLLs are reset
presetWritesEnableFirst ==
  << write8(SI5351_REGISTER_3_OUTPUT_ENABLE_CONTROL, 255) >>
  \o [e \in 1..PresetLength |-> write8(PresetRegister(e), PresetValue(e))]
  \o << write8(SI5351_REGISTER_3_OUTPUT_ENABLE_CONTROL, 0),
        write8(SI5351_REGISTER_177_PLL_RESET, 172) >>

\* the writes of setClockBuilderData: disable all outputs, write the table,
\* apply a soft reset to both PLLs, enable all outputs
presetWrites ==
  << write8(SI5351_REGISTER_3_OUTPUT_ENABLE_CONTROL, 255) >>
  \o [e \in 1..PresetLength |-> write8(PresetRegister(e), PresetValue(e))]
  \o << write8(SI5351_REGISTER_177_PLL_RESET, 172),
        write8(SI5351_REGISTER_3_OUTPUT_ENABLE_CONTROL, 0) >>

\* a faulty variant of setClockBuilderData, for comparison: initialised is
\* not checked
setClockBuilderDataUnchecked(c) == ASSERT_STATUS(c, presetWrites)

setClockBuilderData(c) ==
  IF ~initialised THEN [c EXCEPT !.status = ERROR_DEVICENOTINITIALISED]
  ELSE ASSERT_STATUS(c, presetWrites)

CallSetClockBuilderData(fail) ==
  LET c == setClockBuilderData(Start(regs, fail))
  IN  /\ CanCall
      /\ ~initialised => fail = {}
      /\ Called([op |-> "setClockBuilderData"], c.status, c, BusFailed(c.bus))
      /\ presetLoaded' = (presetLoaded \/ initialised)
      /\ rdivSet' = IF initialised THEN [i \in 0..2 |-> -1] ELSE rdivSet
      /\ UNCHANGED_PLLs
      /\ fields' = <<>>
      /\ UNCHANGED <<initialised, lastRdivValue, i2c_dev, pllSetup, notFound>>

\* --- enableOutputs --------------------------------------------------------
\* a faulty variant of enableOutputs, for comparison: the write comes before
\* the check of initialised
enableOutputsWriteFirst(c, enabled) ==
  LET w == ASSERT_STATUS(c, << write8(SI5351_REGISTER_3_OUTPUT_ENABLE_CONTROL,
                                      IF enabled THEN 0 ELSE 255) >>)
  IN  IF w.status = ERROR_NONE /\ ~initialised
      THEN [w EXCEPT !.status = ERROR_DEVICENOTINITIALISED]
      ELSE w

enableOutputs(c, enabled) ==
  IF ~initialised THEN [c EXCEPT !.status = ERROR_DEVICENOTINITIALISED]
  ELSE ASSERT_STATUS(c, << write8(SI5351_REGISTER_3_OUTPUT_ENABLE_CONTROL,
                                  IF enabled THEN 0 ELSE 255) >>)

CallEnableOutputs(enabled, fail) ==
  LET c == enableOutputs(Start(regs, fail), enabled)
  IN  /\ CanCall
      /\ ~initialised => fail = {}
      /\ Called([op |-> "enableOutputs", enabled |-> enabled], c.status, c,
                BusFailed(c.bus))
      /\ UNCHANGED_PLLs
      /\ fields' = <<>>
      /\ UNCHANGED <<initialised, lastRdivValue, i2c_dev, pllSetup, rdivSet, presetLoaded, notFound>>

\* --- setupPLL -------------------------------------------------------------
\* a faulty variant of setupPLLValidation, for comparison: mult = 15 is refused
setupPLLValidationAbove15(mult, num, denom) ==
  IF ~initialised THEN ERROR_DEVICENOTINITIALISED
  ELSE IF ~(mult > 15 /\ mult < 91) THEN ERROR_INVALIDPARAMETER
  ELSE IF ~(denom > 0) THEN ERROR_INVALIDPARAMETER
  ELSE IF ~(num <= 1048575) THEN ERROR_INVALIDPARAMETER
  ELSE IF ~(denom <= 1048575) THEN ERROR_INVALIDPARAMETER
  ELSE ERROR_NONE

\* Basic validation
setupPLLValidation(mult, num, denom) ==
  IF ~initialised THEN ERROR_DEVICENOTINITIALISED
  ELSE IF ~(mult > 14 /\ mult < 91) THEN ERROR_INVALIDPARAMETER
  ELSE IF ~(denom > 0) THEN ERROR_INVALIDPARAMETER
  ELSE IF ~(num <= 1048575) THEN ERROR_INVALIDPARAMETER
  ELSE IF ~(denom <= 1048575) THEN ERROR_INVALIDPARAMETER
  ELSE ERROR_NONE

\* a faulty variant of setupPLLWrites, for comparison: the PLLs are reset
\* before the parameter bytes are written
setupPLLWritesResetFirst(c, baseaddr, P1, P2, P3) ==
  ASSERT_STATUS(c,
    << write8(SI5351_REGISTER_177_PLL_RESET, BitOr(128, 32)),
       write8(baseaddr,     Bits(P3, 8, 8)),
       write8(baseaddr + 1, Bits(P3, 0, 8)),
       write8(baseaddr + 2, Bits(P1, 16, 2)),
       write8(baseaddr + 3, Bits(P1, 8, 8)),
       write8(baseaddr + 4, Bits(P1, 0, 8)),
       write8(baseaddr + 5, BitOr(Bits(P3, 16, 4) * 16, Bits(P2, 16, 4))),
       write8(baseaddr + 6, Bits(P2, 8, 8)),
       write8(baseaddr + 7, Bits(P2, 0, 8)) >>)

\* the 8 parameter bytes, one write each, then the reset of both PLLs
setupPLLWrites(c, baseaddr, P1, P2, P3) ==
  ASSERT_STATUS(c,
    << write8(baseaddr,     Bits(P3, 8, 8)),
       write8(baseaddr + 1, Bits(P3, 0, 8)),
       write8(baseaddr + 2, Bits(P1, 16, 2)),
       write8(baseaddr + 3, Bits(P1, 8, 8)),
       write8(baseaddr + 4, Bits(P1, 0, 8)),
       write8(baseaddr + 5, BitOr(Bits(P3, 16, 4) * 16, Bits(P2, 16, 4))),
       write8(baseaddr + 6, Bits(P2, 8, 8)),
       write8(baseaddr + 7, Bits(P2, 0, 8)),
       write8(SI5351_REGISTER_177_PLL_RESET, BitOr(128, 32)) >>)

\* a faulty variant of storeFrequency, for comparison: both PLLs are marked
storeFrequencyBoth(pll, freq) ==
  /\ plla_configured' = TRUE
  /\ plla_freq' = freq
  /\ pllb_configured' = TRUE
  /\ pllb_freq' = freq

\* Store the frequency settings for use with the Multisynth helper
storeFrequency(pll, freq) ==
  IF pll = SI5351_PLL_A
  THEN /\ plla_configured' = TRUE
       /\ plla_freq' = freq
       /\ UNCHANGED <<pllb_configured, pllb_freq>>
  ELSE /\ pllb_configured' = TRUE
       /\ pllb_freq' = freq
       /\ UNCHANGED <<plla_configured, plla_freq>>

setupPLL(pll, mult, num, denom, fail, rec) ==
  LET v == setupPLLValidation(mult, num, denom)
  IN  IF v # ERROR_NONE
      THEN /\ fail = {}
           /\ Called(rec, v, Start(regs, fail), FALSE)
           /\ fields' = <<>>
           /\ UNCHANGED_PLLs
           /\ UNCHANGED pllSetup
      ELSE \E P2 \in PllP2(mult, num, denom), freq \in PllFreq(mult, num, denom) :
           LET P1 == PllP1(mult, num, denom)
               P3 == PllP3(mult, num, denom)
               baseaddr == IF pll = SI5351_PLL_A THEN 26 ELSE 34
               c  == setupPLLWrites(Start(regs, fail), baseaddr, P1, P2, P3)
           IN  /\ Called(rec, c.status, c, BusFailed(c.bus))
               /\ fields' = [P1 |-> P1, P2 |-> P2, P3 |-> P3]
               /\ IF c.status # ERROR_NONE
                  THEN UNCHANGED_PLLs /\ UNCHANGED pllSetup
                  ELSE /\ pllSetup' = pllSetup \cup {pll}
                       /\ storeFrequency(pll, freq)

CallSetupPLL(pll, mult, num, denom, fail) ==
  /\ CanCall
  /\ setupPLL(pll, mult, num, denom, fail,
              [op |-> "setupPLL", pll |-> pll, mult |-> mult, num |-> num,
               denom |-> denom])
  /\ UNCHANGED <<initialised, lastRdivValue, i2c_dev, rdivSet, presetLoaded, notFound>>

\* --- setupPLLInt ----------------------------------------------------------
CallSetupPLLInt(pll, mult, fail) ==
  /\ CanCall
  /\ setupPLL(pll, mult, 0, 1, fail, [op |-> "setupPLLInt", pll |-> pll, mult |-> mult])
  /\ UNCHANGED <<initialised, lastRdivValue, i2c_dev, rdivSet, presetLoaded, notFound>>

\* --- setupRdiv ------------------------------------------------------------
\* a faulty variant of RdivField, for comparison: the shift is missing
RdivFieldUnshifted(div) == div % 8

\* divider &= 0x07; divider <<= 4
RdivField(div) == (div % 8) * 16

\* `uninit` is what the local regval holds when read8 has stored nothing
setupRdiv(output, div, fail, uninit, rec) ==
  IF ~(output < 3)
  THEN /\ fail = {}
       /\ uninit = 0
       /\ Called(rec, ERROR_INVALIDPARAMETER, Start(regs, fail), FALSE)
       /\ UNCHANGED <<lastRdivValue, rdivSet>>
  ELSE LET Rreg    == IF output = 0 THEN SI5351_REGISTER_44_MULTISYNTH0_PARAMETERS_3
                      ELSE IF output = 1 THEN SI5351_REGISTER_52_MULTISYNTH1_PARAMETERS_3
                      ELSE SI5351_REGISTER_60_MULTISYNTH2_PARAMETERS_3
           c1      == Issue(Start(regs, fail), << read8(Rreg) >>)
           regval  == IF c1.status = ERROR_NONE THEN regs[Rreg] ELSE uninit
           divider == RdivField(div)
           c2      == Issue(c1, << write8(Rreg, BitOr(regval % 16, divider)) >>)
       IN  /\ NullFails(fail, 2)
           /\ c1.status = ERROR_NONE => uninit = 0
           /\ Called(rec, c2.status, c2, BusFailed(c2.bus))
           /\ lastRdivValue' = [lastRdivValue EXCEPT ![output] = divider]
           /\ rdivSet' = [rdivSet EXCEPT ![output] =
                            IF c2.status = ERROR_NONE THEN div ELSE -1]

CallSetupRdiv(output, div, fail, uninit) ==
  /\ CanCall
  /\ setupRdiv(output, div, fail, uninit,
               [op |-> "setupRdiv", output |-> output, div |-> div])
  /\ UNCHANGED_PLLs
  /\ fields' = <<>>
  /\ UNCHANGED <<initialised, i2c_dev, pllSetup, presetLoaded, notFound>>

CrashSetupRdiv(output, div) ==
  /\ output < 3
  /\ Crashed([op |-> "setupRdiv", output |-> output, div |-> div])
  /\ UNCHANGED_PLLs
  /\ fields' = <<>>
  /\ UNCHANGED <<initialised, lastRdivValue, i2c_dev, pllSetup, rdivSet, presetLoaded, notFound>>

\* --- setupMultisynth ------------------------------------------------------
\* a faulty variant of pllConfigured, for comparison: either PLL will do
pllConfiguredEither(pllSource) == plla_configured \/ pllb_configured

\* Make sure the requested PLL has been initialised
pllConfigured(pllSource) ==
  IF pllSource = SI5351_PLL_A THEN plla_configured ELSE pllb_configured

\* Basic validation
setupMultisynthValidation(output, pllSource, div, num, denom) ==
  IF ~initialised THEN ERROR_DEVICENOTINITIALISED
  ELSE IF ~(output < 3) THEN ERROR_INVALIDPARAMETER
  ELSE IF ~(div > 3) THEN ERROR_INVALIDPARAMETER
  ELSE IF ~(div < 2049) THEN ERROR_INVALIDPARAMETER
  ELSE IF ~(denom > 0) THEN ERROR_INVALIDPARAMETER
  ELSE IF ~(num <= 1048575) THEN ERROR_INVALIDPARAMETER
  ELSE IF ~(denom <= 1048575) THEN ERROR_INVALIDPARAMETER
  ELSE IF ~pllConfigured(pllSource) THEN ERROR_INVALIDPARAMETER
  ELSE ERROR_NONE

\* a faulty variant of sendBuffer, for comparison: the third byte carries
\* P1[17:16] alone
sendBufferNoRdiv(output, P1, P2, P3) ==
  LET baseaddr == IF output = 0 THEN SI5351_REGISTER_42_MULTISYNTH0_PARAMETERS_1
                  ELSE IF output = 1 THEN SI5351_REGISTER_50_MULTISYNTH1_PARAMETERS_1
                  ELSE SI5351_REGISTER_58_MULTISYNTH2_PARAMETERS_1
  IN  << baseaddr,
         Bits(P3, 8, 8),
         Bits(P3, 0, 8),
         Bits(P1, 16, 2),
         Bits(P1, 8, 8),
         Bits(P1, 0, 8),
         BitOr(Bits(P3, 16, 4) * 16, Bits(P2, 16, 4)),
         Bits(P2, 8, 8),
         Bits(P2, 0, 8) >>

\* Set the MSx config registers: the burst of the base address and 8 bytes
sendBuffer(output, P1, P2, P3) ==
  LET baseaddr == IF output = 0 THEN SI5351_REGISTER_42_MULTISYNTH0_PARAMETERS_1
                  ELSE IF output = 1 THEN SI5351_REGISTER_50_MULTISYNTH1_PARAMETERS_1
                  ELSE SI5351_REGISTER_58_MULTISYNTH2_PARAMETERS_1
  IN  << baseaddr,
         Bits(P3, 8, 8),
         Bits(P3, 0, 8),
         BitOr(Bits(P1, 16, 2), lastRdivValue[output]),
         Bits(P1, 8, 8),
         Bits(P1, 0, 8),
         BitOr(Bits(P3, 16, 4) * 16, Bits(P2, 16, 4)),
         Bits(P2, 8, 8),
         Bits(P2, 0, 8) >>

\* a faulty variant of clkControlReg, for comparison: integer mode is never set
clkControlRegFractional(pllSource, num) ==
  BitOr(15, IF pllSource = SI5351_PLL_B THEN 32 ELSE 0)

\* Configure the clk control and enable the output
clkControlReg(pllSource, num) ==
  BitOr(BitOr(15, IF pllSource = SI5351_PLL_B THEN 32 ELSE 0),
        IF num = 0 THEN 64 ELSE 0)

setupMultisynthWrites(c, output, pllSource, num, P1, P2, P3) ==
  ASSERT_STATUS(c,
    << writeN(sendBuffer(output, P1, P2, P3), 9),
       write8(SI5351_REGISTER_16_CLK0_CONTROL + output, clkControlReg(pllSource, num)) >>)

setupMultisynth(output, pllSource, div, num, denom, fail, rec) ==
  LET v == setupMultisynthValidation(output, pllSource, div, num, denom)
  IN  IF v # ERROR_NONE
      THEN /\ fail = {}
           /\ Called(rec, v, Start(regs, fail), FALSE)
           /\ fields' = <<>>
      ELSE \E P2 \in MultisynthP2(div, num, denom) :
           LET P1 == MultisynthP1(div, num, denom)
               P3 == MultisynthP3(div, num, denom)
               c  == setupMultisynthWrites(Start(regs, fail), output, pllSource, num,
                                           P1, P2, P3)
           IN  /\ Called(rec, c.status, c, BusFailed(c.bus))
               /\ fields' = [P1 |-> P1, P2 |-> P2, P3 |-> P3]

CallSetupMultisynth(output, pllSource, div, num, denom, fail) ==
  /\ CanCall
  /\ setupMultisynth(output, pllSource, div, num, denom, fail,
                     [op |-> "setupMultisynth", output |-> output, pll |-> pllSource,
                      div |-> div, num |-> num, denom |-> denom])
  /\ UNCHANGED_PLLs
  /\ UNCHANGED <<initialised, lastRdivValue, i2c_dev, pllSetup, rdivSet, presetLoaded, notFound>>

\* --- setupMultisynthInt ---------------------------------------------------
CallSetupMultisynthInt(output, pllSource, div, fail) ==
  /\ CanCall
  /\ setupMultisynth(output, pllSource, div, 0, 1, fail,
                     [op |-> "setupMultisynthInt", output |-> output, pll |-> pllSource,
                      div |-> div])
  /\ UNCHANGED_PLLs
  /\ UNCHANGED <<initialised, lastRdivValue, i2c_dev, pllSetup, rdivSet, presetLoaded, notFound>>

-----------------------------------------------------------------------------
(* The calls a program makes *)

\* the argument values the calls are made with
Plls == {SI5351_PLL_A, SI5351_PLL_B}
Outputs == {0, 2, 3}
PllArgs == {<<15, 1, 2>>, <<90, 0, 1048576>>}
PllIntMults == {36}
MultisynthArgs == {<<2048, 1, 2>>, <<3, 0, 1>>}
MultisynthIntDivs == {6}
RDivs == {2, 5}
UninitBytes == {0, 255}

\* the bus fails no transaction of a call, or one of those listed
OneFailure(ks) == {{}} \cup {{k} : k \in ks}

Next ==
  \/ \E found \in BOOLEAN, fail \in OneFailure({1, 10, 11, 12}) : CallBegin(found, fail)
  \/ \E fail \in OneFailure({2, PresetLength + 3}) : CallSetClockBuilderData(fail)
  \/ \E pll \in Plls, a \in PllArgs, fail \in OneFailure({1, 9}) :
       CallSetupPLL(pll, a[1], a[2], a[3], fail)
  \/ \E pll \in Plls, mult \in PllIntMults : CallSetupPLLInt(pll, mult, {})
  \/ \E output \in Outputs, pll \in Plls, a \in MultisynthArgs, fail \in OneFailure({1, 2}) :
       CallSetupMultisynth(output, pll, a[1], a[2], a[3], fail)
  \/ \E output \in Outputs, pll \in Plls, div \in MultisynthIntDivs :
       CallSetupMultisynthInt(output, pll, div, {})
  \/ \E output \in Outputs, div \in RDivs, fail \in OneFailure({1, 2}), uninit \in UninitBytes :
       CallSetupRdiv(output, div, fail, uninit)
  \/ \E output \in Outputs, div \in RDivs : CrashSetupRdiv(output, div)
  \/ \E enabled \in BOOLEAN, fail \in OneFailure({1}) : CallEnableOutputs(enabled, fail)
  \/ \E enabled \in BOOLEAN, fail \in OneFailure({1, 2}) \cup {{1, 2}} :
       CallEnableSpreadSpectrum(enabled, fail)
  \/ \E enabled \in BOOLEAN : CrashEnableSpreadSpectrum(enabled)

Spec == Init /\ [][Next]_vars

-----------------------------------------------------------------------------
(* The calls of a program that probes the validation boundaries, on a       *)
(* device that is present and a bus that fails no transaction               *)

\* mult and div at, below and above their limits
BoundaryMults == {14, 15, 90, 91}
BoundaryDivs == {3, 4, 2048, 2049}

\* integer multipliers: the limits, one whose VCO frequency single precision
\* holds exactly (36) and one whose VCO frequency it has to round (43)
IntegerMults == BoundaryMults \cup {36, 43}

\* <<num, denom>> at, below and above their limits, a proper fraction whose
\* quotient rounds up to 1 in single precision, and improper fractions
BoundaryFractions ==
  { <<0, 1>>, <<1, 2>>, <<2, 1>>, <<0, 0>>, <<1048575, 1>>, <<1048575, 1048575>>,
    <<1048576, 1>>, <<1, 1048576>>, <<1040383, 1048575>>,
    <<0, 2>>, <<0, 1048575>> }

\* denominators across the valid range
SampleDenoms == {1, 2, 3, 1000, 524288, 1048574, 1048575}

InitArgs == Constructed /\ callBound = MaxArgCalls

NextArgs ==
  \/ CallBegin(TRUE, {})
  \/ \E mult \in BoundaryMults : CallSetupPLL(SI5351_PLL_A, mult, 0, 1, {})
  \/ \E a \in BoundaryFractions : CallSetupPLL(SI5351_PLL_A, 15, a[1], a[2], {})
  \/ \E pll \in Plls, mult \in IntegerMults : CallSetupPLLInt(pll, mult, {})
  \/ \E output \in 0..3, div \in BoundaryDivs :
       CallSetupMultisynth(output, SI5351_PLL_A, div, 1, 2, {})
  \/ \E pll \in Plls, a \in BoundaryFractions :
       CallSetupMultisynth(0, pll, 8, a[1], a[2], {})
  \/ \E output \in 0..3, div \in BoundaryDivs :
       CallSetupMultisynthInt(output, SI5351_PLL_A, div, {})
  \/ \E output \in 0..3 : CallSetupRdiv(output, 5, {}, 0)

SpecArgs == InitArgs /\ [][NextArgs]_vars

-----------------------------------------------------------------------------
(* Properties *)

\* the methods that program a Multisynth divider, and the arguments of the
\* last call to one of them (setupMultisynthInt passes num = 0, denom = 1)
MultisynthOps == {"setupMultisynth", "setupMultisynthInt"}
CallNum == IF call.op = "setupMultisynth" THEN call.num ELSE 0
CallDenom == IF call.op = "setupMultisynth" THEN call.denom ELSE 1

\* the third data byte of the Multisynth burst of the last call
BurstByte3 == bus[1].data[3]

\* the MSx_PARAMETERS_3 register of a channel
RdivRegister(ch) == SI5351_REGISTER_44_MULTISYNTH0_PARAMETERS_3 + 8 * ch

\* C1: with the driver initialised, setupMultisynth and setupMultisynthInt
\* naming a PLL that no setupPLL has set up successfully since the last
\* successful begin return ERROR_INVALIDPARAMETER without any bus transaction,
\* whatever has been done to the other PLL.
C1_MultisynthNeedsItsPll ==
  (call.op \in MultisynthOps /\ initialised /\ call.pll \notin pllSetup)
    => (ret = ERROR_INVALIDPARAMETER /\ bus = <<>>)

\* C1, its case: a valid setupMultisynth on PLL B is refused while PLL A alone
\* has been set up.
C1_Witness ==
  /\ call.op = "setupMultisynth"
  /\ call.pll = SI5351_PLL_B /\ call.output = 0 /\ call.div = 2048
  /\ initialised
  /\ pllSetup = {SI5351_PLL_A}
  /\ ret = ERROR_INVALIDPARAMETER

\* C2: once begin has returned ERROR_I2C_DEVICENOTFOUND, and until a begin
\* succeeds, initialised is false and every other method returns
\* ERROR_DEVICENOTINITIALISED.
C2_NotFoundMeansNotInitialised ==
  notFound => /\ ~initialised
              /\ call.op # "begin" => ret = ERROR_DEVICENOTINITIALISED

\* C3: the fields setupMultisynth computes for an accepted (div, num, denom)
\* encode div + num/denom: P3 = denom and (P1 + 512) * P3 + P2 =
\* 128 * (div * denom + num), here with 128 * div * denom moved to the left.
C3_FieldsEncodeRatio ==
  (call.op \in MultisynthOps /\ fields # <<>>)
    => /\ fields.P3 = CallDenom
       /\ (fields.P1 + 512 - 128 * call.div) * CallDenom + fields.P2 = 128 * CallNum

\* C4: the fields setupPLL and setupMultisynth compute for accepted arguments
\* fit their registers: P1 in 18 bits, P2 and P3 in 20 bits.
C4_FieldsFit ==
  fields # <<>> => /\ fields.P1 \in 0..262143
                   /\ fields.P2 \in 0..1048575
                   /\ fields.P3 \in 0..1048575

\* C5: from a successful setupRdiv(ch, d) until the next setupRdiv on ch (or a
\* load of the preset table), bits [6:4] of the channel's MSx_PARAMETERS_3
\* register hold d, whatever setupMultisynth, setupPLL, enableOutputs,
\* enableSpreadSpectrum and begin calls are made.
C5_RdivFieldKept ==
  \A ch \in 0..2 :
    rdivSet[ch] # -1 => Bits(regs[RdivRegister(ch)], 4, 3) = rdivSet[ch]

\* C5, its case: a Multisynth burst has rewritten the register of channel 0
\* after setupRdiv(0, 5) succeeded.
C5_Witness ==
  /\ call.op \in MultisynthOps /\ call.output = 0
  /\ ret = ERROR_NONE
  /\ rdivSet[0] = 5
  /\ regs[RdivRegister(0)] = 83

\* C6, as the code has it: the third data byte of the Multisynth burst holds
\* the stored R-divider field in bits [6:4] and P1[17:16], as computed, in
\* bits [1:0], with bits 7, 3 and 2 clear; and the stored field never has a
\* bit outside [6:4].
C6_RdivFieldInHighNibble ==
  /\ \A ch \in 0..2 : lastRdivValue[ch] \in {16 * d : d \in 0..7}
  /\ (call.op \in MultisynthOps /\ bus # <<>>)
       => /\ Bits(BurstByte3, 4, 4) * 16 = lastRdivValue[call.output]
          /\ Bits(BurstByte3, 0, 4) = Bits(fields.P1, 16, 2)

\* C6, its case: a burst on a channel whose R divider is 5, with P1[17:16] = 3.
C6_Witness ==
  /\ call.op = "setupMultisynth" /\ bus # <<>>
  /\ rdivSet[call.output] = 5
  /\ Bits(fields.P1, 16, 2) = 3
  /\ BurstByte3 = 83

\* C6, as stated: after setupRdiv on the channel, the low nibble of the third
\* data byte of the burst equals the stored R-divider field (read either as
\* the stored byte or as its 3-bit value), P1[17:16] is as computed, and the
\* stored field has no bit in the positions of P1[17:16].
C6_RdivFieldInLowNibble ==
  (call.op \in MultisynthOps /\ bus # <<>> /\ rdivSet[call.output] # -1)
    => /\ Bits(BurstByte3, 0, 4) \in
            {lastRdivValue[call.output], lastRdivValue[call.output] \div 16}
       /\ Bits(BurstByte3, 0, 2) = Bits(fields.P1, 16, 2)
       /\ Bits(lastRdivValue[call.output], 0, 2) = 0

\* C7: a call of setClockBuilderData, setupPLL, setupPLLInt, setupMultisynth,
\* setupMultisynthInt, setupRdiv or enableOutputs that returns
\* ERROR_DEVICENOTINITIALISED or ERROR_INVALIDPARAMETER has issued no bus
\* transaction and has left the device registers and the driver state as they
\* were.
C7_Step ==
  (/\ call'.op \in {"setClockBuilderData", "setupPLL", "setupPLLInt", "setupMultisynth",
                    "setupMultisynthInt", "setupRdiv", "enableOutputs"}
   /\ ret' \in {ERROR_DEVICENOTINITIALISED, ERROR_INVALIDPARAMETER})
    => /\ bus' = <<>>
       /\ UNCHANGED <<regs, initialised, plla_configured, plla_freq, pllb_configured,
                      pllb_freq, lastRdivValue>>

C7_ValidationBeforeBus == [][C7_Step]_vars

\* C7, its case: setupRdiv has refused a channel on an initialised driver
\* whose registers begin has written.
C7_Witness ==
  /\ call.op = "setupRdiv" /\ call.output = 3
  /\ ret = ERROR_INVALIDPARAMETER
  /\ initialised
  /\ regs[SI5351_REGISTER_183_CRYSTAL_INTERNAL_LOAD_CAPACITANCE] = crystalLoad

\* C8: a call returns ERROR_NONE only if every bus transaction it issued
\* succeeded.
C8_NoErrorSwallowed == ret = ERROR_NONE => ~BusFailed(bus)

\* C9: the first failing bus transaction of a call is its last, and the call
\* then leaves initialised and the PLL flags and frequencies as they were.
C9_Step ==
  BusFailed(bus')
    => /\ \A i \in 1..Len(bus') : ~bus'[i].ok => i = Len(bus')
       /\ UNCHANGED <<initialised, plla_configured, plla_freq, pllb_configured, pllb_freq>>

C9_FirstFailureAborts == [][C9_Step]_vars

PllOps == {"setupPLL", "setupPLLInt"}

\* C11: a setupPLL or setupPLLInt call that returns an error leaves the
\* configured flags and frequencies of both PLLs as they were; a successful
\* one leaves those of the other PLL as they were; setupMultisynth,
\* setupMultisynthInt, setupRdiv, enableOutputs, enableSpreadSpectrum and
\* setClockBuilderData never change them.
C11_Step ==
  /\ (call'.op \in PllOps /\ ret' # ERROR_NONE) => UNCHANGED_PLLs
  /\ (call'.op \in PllOps /\ ret' = ERROR_NONE /\ call'.pll = SI5351_PLL_A)
       => UNCHANGED <<pllb_configured, pllb_freq>>
  /\ (call'.op \in PllOps /\ ret' = ERROR_NONE /\ call'.pll = SI5351_PLL_B)
       => UNCHANGED <<plla_configured, plla_freq>>
  /\ call'.op \in MultisynthOps \cup {"setupRdiv", "enableOutputs", "enableSpreadSpectrum",
                                      "setClockBuilderData"}
       => UNCHANGED_PLLs

C11_PllStateFrame == [][C11_Step]_vars

\* C11, its case: a setupPLL on PLL B has failed on the bus after PLL A was
\* set up, and PLL A is still configured while PLL B is not.
C11_Witness ==
  /\ call.op = "setupPLL" /\ call.pll = SI5351_PLL_B
  /\ ret = ERROR_I2C_TRANSACTION
  /\ plla_configured /\ plla_freq # 0
  /\ ~pllb_configured /\ pllb_freq = 0

\* C12: after every begin that returns ERROR_NONE the driver is initialised,
\* both PLLs are unconfigured with frequency 0, register 3 holds 0xFF and
\* registers 16..23 hold 0x80; and from then on a setupMultisynth or
\* setupMultisynthInt call naming a PLL that no setupPLL has set up since that
\* begin returns ERROR_INVALIDPARAMETER.
C12_ReopenResets ==
  /\ (call.op = "begin" /\ ret = ERROR_NONE)
       => /\ initialised
          /\ ~plla_configured /\ plla_freq = 0
          /\ ~pllb_configured /\ pllb_freq = 0
          /\ pllSetup = {}
          /\ regs[SI5351_REGISTER_3_OUTPUT_ENABLE_CONTROL] = 255
          /\ \A clk \in 0..7 : regs[SI5351_REGISTER_16_CLK0_CONTROL + clk] = 128
  /\ (initialised /\ call.op \in MultisynthOps /\ call.pll \notin pllSetup)
       => ret = ERROR_INVALIDPARAMETER

\* C12, its case: begin has succeeded again on a driver whose PLL A had been
\* set up (its parameter window still holds P3 = 2), and PLL A is
\* unconfigured again.
C12_Witness ==
  /\ call.op = "begin" /\ ret = ERROR_NONE
  /\ calls >= 3
  /\ regs[27] = 2
  /\ ~plla_configured

\* the frequency and the configured flag cached for a PLL
CachedFreq(pll) == IF pll = SI5351_PLL_A THEN plla_freq ELSE pllb_freq
CachedConfigured(pll) == IF pll = SI5351_PLL_A THEN plla_configured ELSE pllb_configured

\* crystalFreq * mult as a 32-bit word (25,000,000 * mult passes 2^31 at 86)
CrystalTimes(mult) ==
  IF mult <= 85 THEN 25000000 * mult ELSE 25000000 * (mult - 86) - 2144967296

\* C13: a setupPLLInt(pll, mult) that returns ERROR_NONE has computed
\* P1 = 128 * mult - 512, P2 = 0, P3 = 1, has marked the PLL configured and
\* has stored crystalFreq * mult as its frequency.
C13_IntegerPllFrequency ==
  (call.op = "setupPLLInt" /\ ret = ERROR_NONE)
    => /\ fields = [P1 |-> 128 * call.mult - 512, P2 |-> 0, P3 |-> 1]
       /\ CachedConfigured(call.pll)
       /\ CachedFreq(call.pll) = CrystalTimes(call.mult)

\* C14: at num = 0 the fractional-mode formulas of setupPLL give the P1, P2
\* and P3 of the integer branch: for the arguments of every accepted setupPLL
\* call with num = 0, and for every valid mult with denominators across
\* 1..1048575.
C14_FractionalMeetsInteger ==
  /\ (call.op = "setupPLL" /\ call.num = 0 /\ fields # <<>>)
       => /\ fields.P1 = PllFracP1(call.mult, 0, call.denom)
          /\ PllFracP2(call.mult, 0, call.denom) = {fields.P2}
          /\ fields.P3 = call.denom
  /\ \A mult \in 15..90, denom \in SampleDenoms :
       /\ PllP1(mult, 0, denom) = PllFracP1(mult, 0, denom)
       /\ PllP2(mult, 0, denom) = PllFracP2(mult, 0, denom)

\* C14, its case: setupPLL has taken the integer branch with the largest
\* denominator.
C14_Witness ==
  /\ call.op = "setupPLL" /\ call.num = 0 /\ call.denom = 1048575
  /\ ret = ERROR_NONE
  /\ fields = [P1 |-> 1408, P2 |-> 0, P3 |-> 1048575]

\* the eight parameter registers of a channel's Multisynth
MultisynthWindow(ch) ==
  (SI5351_REGISTER_42_MULTISYNTH0_PARAMETERS_1 + 8 * ch)
    .. (SI5351_REGISTER_42_MULTISYNTH0_PARAMETERS_1 + 8 * ch + 7)

\* C15: a setupMultisynth or setupMultisynthInt call on channel ch changes no
\* register outside the channel's parameter window and register 16 + ch, and
\* when it returns ERROR_NONE register 16 + ch holds 0x0F, plus bit 5 exactly
\* when the source is PLL B, plus bit 6 exactly when num = 0.
C15_Step ==
  call'.op \in MultisynthOps =>
    LET ch  == call'.output
        num == IF call'.op = "setupMultisynth" THEN call'.num ELSE 0
        own == IF ch \in 0..2
               THEN MultisynthWindow(ch) \cup {SI5351_REGISTER_16_CLK0_CONTROL + ch}
               ELSE {}
    IN  /\ \A a \in Registers \ own : regs'[a] = regs[a]
        /\ ret' = ERROR_NONE =>
             regs'[SI5351_REGISTER_16_CLK0_CONTROL + ch]
               = 15 + (IF call'.pll = SI5351_PLL_B THEN 32 ELSE 0)
                    + (IF num = 0 THEN 64 ELSE 0)

C15_ClockControlByte == [][C15_Step]_vars

\* C15, its case: channel 2 has been set up in integer mode from PLL B, and
\* its control register holds 0x6F.
C15_Witness ==
  /\ call.op \in MultisynthOps /\ call.output = 2 /\ call.pll = SI5351_PLL_B
  /\ ret = ERROR_NONE
  /\ regs[SI5351_REGISTER_16_CLK0_CONTROL + 2] = 111

\* C16: setClockBuilderData returns ERROR_DEVICENOTINITIALISED when the driver
\* is not initialised, and no call of it changes initialised, the configured
\* flags and frequencies of the PLLs or lastRdivValue.
C16_Step ==
  call'.op = "setClockBuilderData" =>
    /\ ~initialised => ret' = ERROR_DEVICENOTINITIALISED
    /\ UNCHANGED_PLLs
    /\ UNCHANGED <<initialised, lastRdivValue>>

C16_PresetKeepsDriverState == [][C16_Step]_vars

\* C16, its case: the preset has been loaded on a driver that had PLL A
\* configured and an R divider cached, and both are still there.
C16_Witness ==
  /\ call.op = "setClockBuilderData" /\ ret = ERROR_NONE
  /\ plla_configured /\ plla_freq # 0
  /\ lastRdivValue[0] = 80

\* the register the i-th transaction of setClockBuilderData addresses
PresetOrder(i) ==
  IF i = 1 THEN SI5351_REGISTER_3_OUTPUT_ENABLE_CONTROL
  ELSE IF i <= PresetLength + 1 THEN PresetRegister(i - 1)
  ELSE IF i = PresetLength + 2 THEN SI5351_REGISTER_177_PLL_RESET
  ELSE SI5351_REGISTER_3_OUTPUT_ENABLE_CONTROL

\* C17: the transactions of a setClockBuilderData call are, in this order,
\* register 3 := 0xFF, the table entries, register 177 := 0xAC and register
\* 3 := 0x00, each issued only after all before it were acknowledged, so that
\* register 3 holds 0xFF at every table write and at the PLL reset; the call
\* returns ERROR_NONE exactly when all of them were acknowledged, with
\* register 3 at 0x00, and a call that fails after its first write leaves
\* register 3 at 0xFF.
C17_PresetOrder ==
  call.op = "setClockBuilderData" =>
    /\ Len(bus) <= PresetLength + 3
    /\ \A i \in 1..Len(bus) :
         /\ bus[i].kind = "write"
         /\ bus[i].reg = PresetOrder(i)
         /\ i = 1 => bus[i].data = <<255>>
         /\ i = PresetLength + 2 => bus[i].data = <<172>>
         /\ i = PresetLength + 3 => bus[i].data = <<0>>
         /\ i < Len(bus) => bus[i].ok
    /\ ret = ERROR_NONE <=> (Len(bus) = PresetLength + 3 /\ bus[Len(bus)].ok)
    /\ ret = ERROR_NONE => regs[SI5351_REGISTER_3_OUTPUT_ENABLE_CONTROL] = 0
    /\ (ret # ERROR_NONE /\ Len(bus) >= 2)
         => regs[SI5351_REGISTER_3_OUTPUT_ENABLE_CONTROL] = 255

\* C17, its case: the last write of the preset, the one that enables the
\* outputs, has failed, and register 3 still holds 0xFF.
C17_Witness ==
  /\ call.op = "setClockBuilderData" /\ ret = ERROR_I2C_TRANSACTION
  /\ Len(bus) = PresetLength + 3
  /\ bus[PresetLength + 2].ok
  /\ regs[SI5351_REGISTER_3_OUTPUT_ENABLE_CONTROL] = 255
  /\ regs[SI5351_REGISTER_177_PLL_RESET] = 172

\* the eight parameter registers of a PLL
PllWindow(pll) == IF pll = SI5351_PLL_A THEN 26..33 ELSE 34..41

\* C18: the transactions of a setupPLL or setupPLLInt call are writes of the
\* eight registers of its PLL's window (26..33 for PLL A, 34..41 for PLL B)
\* in ascending order, then one write of register 177 with bits 7 and 5 set,
\* each issued only after all before it were acknowledged; the call changes
\* no register outside that window and register 177.
C18_Step ==
  call'.op \in PllOps =>
    LET window == PllWindow(call'.pll)
        base   == IF call'.pll = SI5351_PLL_A THEN 26 ELSE 34
    IN  /\ Len(bus') <= 9
        /\ \A i \in 1..Len(bus') :
             /\ bus'[i].kind = "write"
             /\ Len(bus'[i].data) = 1
             /\ i <= 8 => bus'[i].reg = base + i - 1
             /\ i = 9 => (bus'[i].reg = SI5351_REGISTER_177_PLL_RESET
                          /\ bus'[i].data = <<160>>)
             /\ i < Len(bus') => bus'[i].ok
        /\ \A a \in Registers \ (window \cup {SI5351_REGISTER_177_PLL_RESET}) :
             regs'[a] = regs[a]
        /\ ret' = ERROR_NONE => (Len(bus') = 9 /\ regs'[SI5351_REGISTER_177_PLL_RESET] = 160)

C18_PllWindows == [][C18_Step]_vars

\* C18, its case: PLL B has been set up after PLL A, and the window of PLL A
\* still holds what its own setupPLL wrote (P3 = 2).
C18_Witness ==
  /\ call.op = "setupPLL" /\ call.pll = SI5351_PLL_B /\ ret = ERROR_NONE
  /\ plla_configured
  /\ regs[27] = 2 /\ regs[35] = 2
  /\ regs[SI5351_REGISTER_177_PLL_RESET] = 160

\* C19: a setupRdiv(ch, d) that returns ERROR_NONE leaves in the channel's
\* MSx_PARAMETERS_3 register the low nibble the register held before the
\* call and (d & 7) << 4 in the high nibble, stores (d & 7) << 4 in
\* lastRdivValue[ch], and changes no other register and no other entry of
\* lastRdivValue.
C19_Step ==
  (call'.op = "setupRdiv" /\ ret' = ERROR_NONE) =>
    LET ch   == call'.output
        Rreg == RdivRegister(ch)
    IN  /\ regs'[Rreg] % 16 = regs[Rreg] % 16
        /\ regs'[Rreg] - (regs'[Rreg] % 16) = (call'.div % 8) * 16
        /\ lastRdivValue'[ch] = (call'.div % 8) * 16
        /\ \A a \in Registers \ {Rreg} : regs'[a] = regs[a]
        /\ \A o \in (0..2) \ {ch} : lastRdivValue'[o] = lastRdivValue[o]

C19_RdivReadModifyWrite == [][C19_Step]_vars

\* bits [6:4] of a channel's MSx_PARAMETERS_3 register, in place, are what
\* lastRdivValue holds for the channel
RdivCacheCoherent(ch) ==
  Bits(regs[RdivRegister(ch)], 4, 3) * 16 = lastRdivValue[ch]

\* C20: as long as setClockBuilderData has not written to the device, bits
\* [6:4] of the MSx_PARAMETERS_3 register of every channel the driver has
\* written equal lastRdivValue of the channel after every call, whichever
\* transactions failed; and a setupRdiv call that returns an error leaves
\* lastRdivValue as it was.
C20_Step ==
  /\ ~presetLoaded' => \A ch \in rdivWritten' : RdivCacheCoherent(ch)'
  /\ (call'.op = "setupRdiv" /\ ret' \in {ERROR_INVALIDPARAMETER, ERROR_I2C_TRANSACTION})
       => UNCHANGED lastRdivValue

C20_RdivCacheUnderFailures == [][C20_Step]_vars

\* the eight bytes setupPLL writes into a PLL's window for P1, P2, P3
PllParameterBytes(P1, P2, P3) ==
  << Bits(P3, 8, 8), Bits(P3, 0, 8), Bits(P1, 16, 2), Bits(P1, 8, 8), Bits(P1, 0, 8),
     BitOr(Bits(P3, 16, 4) * 16, Bits(P2, 16, 4)), Bits(P2, 8, 8), Bits(P2, 0, 8) >>

\* the window of a PLL holds the packing of the arguments of its last
\* successful setupPLL, and its cached frequency is derived from them
PllCacheCoherent(pll) ==
  /\ pllLast[pll] # <<>>
  /\ LET a    == pllLast[pll]
         base == IF pll = SI5351_PLL_A THEN 26 ELSE 34
     IN  /\ \E P2 \in PllP2(a[1], a[2], a[3]) :
              \A i \in 1..8 :
                regs[base + i - 1]
                  = PllParameterBytes(PllP1(a[1], a[2], a[3]), P2, PllP3(a[1], a[2], a[3]))[i]
         /\ CachedFreq(pll) \in PllFreq(a[1], a[2], a[3])

\* C21: as long as setClockBuilderData has not written to the device, the
\* eight parameter registers of every PLL whose configured flag is true hold
\* the P1/P2/P3 packing of the arguments of the last successful setupPLL for
\* it, and its cached frequency is the one derived from those arguments,
\* whichever transactions of later calls failed.
C21_PllCacheUnderFailures ==
  ~presetLoaded => \A pll \in Plls : CachedConfigured(pll) => PllCacheCoherent(pll)

=============================================================================
